---- MODULE Spec2Model ----
(***************************************************************************)
(* State-machine model of the QuantumDash frontend: the AuthProvider       *)
(* session (React state plus local storage), the Login and Register pages, *)
(* and the Dashboard upload / cleaning / summary flow.                      *)
(*                                                                         *)
(* Conventions.  A nullable JavaScript value is Null (absent) or Some(v).   *)
(* JavaScript strings are TLA+ strings, concatenated with \o.  A React      *)
(* event handler or the continuation of an awaited request is one action:  *)
(* React commits every setState of the handler before the next event.      *)
(***************************************************************************)
EXTENDS Naturals, Sequences, FiniteSets, TLC

VARIABLES
  \* AuthProvider (AuthContext) and the browser's local storage
  user, token, localStorage,
  \* history variable: the last operation that wrote the session ("start": the
  \* app was opened, "login", "logout"), the arguments of that login, and
  \* whether the page has been reloaded since
  sessionOp,
  \* react-router location
  route,
  \* Login page: component state and the sign-in requests awaiting a response
  loginPage, signinRequests,
  \* Register page: component state, requests awaiting a response, and the
  \* setTimeout(navigate('/login'), 2000) callbacks not yet fired
  registerPage, registerRequests, navigateTimers,
  \* Dashboard page
  version, modalStep, analysisResults, automatedInsights, isProfileModalOpen,
  selectedFile, isUploading, uploadError, filePickerOpen, uploads, now,
  \* CleaningModal: which of the two versions of the component the build has,
  \* the options state of the rendered one, the checkbox clicks so far
  modalVersion, options, toggles,
  \* AnimatePresence: the modal that left the tree and is still mounted
  leaving,
  \* RightSidebar (the chat): component state and the setTimeout callbacks of
  \* the placeholder replies not yet fired; chatHistory is Dashboard state
  message, messageHistory, replyTimers, chatHistory,
  \* the AI response text handed to parseKeyStatistics (used by the parser's
  \* own specification; the Dashboard takes the text from the summary response)
  aiText

authVars == <<user, token, localStorage, sessionOp>>
pageVars == <<route, loginPage, signinRequests, registerPage, registerRequests, navigateTimers>>
chatVars == <<message, messageHistory, replyTimers, chatHistory>>
buildVars == <<version, modalVersion>>
dashVars == <<buildVars, modalStep, analysisResults, automatedInsights, isProfileModalOpen,
              selectedFile, isUploading, uploadError, filePickerOpen, uploads, now, options,
              toggles, leaving, chatVars, aiText>>
vars == <<authVars, pageVars, dashVars>>

----------------------------------------------------------------------------
\* Nullable values

Null == <<>>
Some(v) == <<v>>
Val(o) == o[1]

----------------------------------------------------------------------------
\* Bounds of the model

\* requests of one kind that may await their response at the same time
MaxPending == 2
\* uploads started in one Dashboard lifetime
MaxUploads == 2

----------------------------------------------------------------------------
\* Values the environment supplies (backend responses, user input)

Users ==
  { [user_id |-> "u1", email |-> "ann@x.io", name |-> "Ann", user_type |-> "community"],
    [user_id |-> "u2", email |-> "bob@x.io", name |-> "Bob", user_type |-> "pro"] }
Tokens == {"tokA", "tokB"}
\* err.response?.data?.detail of a failed request: absent, empty, or a text
Details == {Null, Some(""), Some("Server says no")}
\* the same for GET /data/summarize, whose backend may report its LM Studio server
SummaryDetails == Details \cup {Some("LM Studio connection refused")}

----------------------------------------------------------------------------
\* JSON.stringify / JSON.parse of a User object.  The serialized form is the
\* list of "key":"value" members in property order.

UserKeys == <<"user_id", "email", "name", "user_type">>
JSONstringify(userData) == [i \in DOMAIN UserKeys |-> <<UserKeys[i], userData[UserKeys[i]]>>]
JSONparse(text) ==
  [k \in {text[i][1] : i \in DOMAIN text} |->
     text[CHOOSE i \in DOMAIN text : text[i][1] = k /\ \A j \in DOMAIN text : text[j][1] = k => j <= i][2]]

\* localStorage.getItem / setItem / removeItem on the two keys the app uses
getItem(store, key) == store[key]
setItem(store, key, value) == [store EXCEPT ![key] = Some(value)]
removeItem(store, key) == [store EXCEPT ![key] = Null]

\* what local storage can hold when the app starts: nothing, or a token and / or
\* a serialized user left by an earlier visit
StorageContents ==
  [token : {Null} \cup {Some(t) : t \in Tokens},
   user : {Null} \cup {Some(JSONstringify(u)) : u \in Users}]

\* the contents the app is opened with: each of the four shapes above
InitialStorage ==
  {s \in StorageContents : s.token \in {Null, Some("tokA")}
                            /\ s.user \in {Null, Some(JSONstringify(CHOOSE u \in Users : u.user_id = "u1"))}}

----------------------------------------------------------------------------
\* AuthProvider

\* JavaScript truthiness of a nullable string
Truthy(o) == o # Null /\ Val(o) # ""
\* faulty variant: the right operand whatever the left one is
OrElse_Right(a, b) == b
\* a || b on a nullable string a and a string b
OrElse(a, b) == IF Truthy(a) THEN Val(a) ELSE b

\* const isAuthenticated = !!token
isAuthenticated == Truthy(token)

\* AuthProvider's state once mounted: the useState initializers (user null,
\* token from local storage) followed by the mount effect
MountedToken(store) == getItem(store, "token")
\* faulty variant: the mount effect does not restore the stored user
MountedUser_NotRestored(store) == Null

MountedUser(store) ==
  LET storedToken == getItem(store, "token")
      storedUser == getItem(store, "user")
  IN IF Truthy(storedToken) /\ storedUser # Null
       THEN Some(JSONparse(Val(storedUser)))
       ELSE Null

SessionOp(op, args, reloaded) == [op |-> op, args |-> args, reloaded |-> reloaded]

\* faulty variant: the token is not written to local storage
login_TokenNotStored(userData, tok) ==
  /\ user' = Some(userData)
  /\ token' = Some(tok)
  /\ localStorage' = setItem(localStorage, "user", JSONstringify(userData))
  /\ sessionOp' = SessionOp("login", <<userData, tok>>, FALSE)

login(userData, tok) ==
  /\ user' = Some(userData)
  /\ token' = Some(tok)
  /\ localStorage' = setItem(setItem(localStorage, "token", tok), "user", JSONstringify(userData))
  /\ sessionOp' = SessionOp("login", <<userData, tok>>, FALSE)

\* faulty variant: the stored user is not removed
logout_KeepsStoredUser ==
  /\ user' = Null
  /\ token' = Null
  /\ localStorage' = removeItem(localStorage, "token")
  /\ sessionOp' = SessionOp("logout", <<>>, FALSE)

logout ==
  /\ user' = Null
  /\ token' = Null
  /\ localStorage' = removeItem(removeItem(localStorage, "token"), "user")
  /\ sessionOp' = SessionOp("logout", <<>>, FALSE)

----------------------------------------------------------------------------
\* Routing.  A page component keeps its state while its route is shown and is
\* created afresh (initial state) when the route is entered again.  Requests
\* and timers started by a component outlive it; their continuations still
\* run, but setState on the unmounted component does nothing.

Routes == {"/login", "/register", "/dashboard"}

\* <Navigate to={isAuthenticated ? "/dashboard" : "/login"} replace />
RootRedirect(tok) == IF Truthy(tok) THEN "/dashboard" ELSE "/login"

LoginInitial == [email |-> "", password |-> "", error |-> Null, isLoading |-> FALSE]
RegisterInitial ==
  [step |-> "form", email |-> "", name |-> "", password |-> "", otp |-> "",
   error |-> Null, isLoading |-> FALSE, successMessage |-> Null]

Orphaned(reqs) == [i \in DOMAIN reqs |-> [reqs[i] EXCEPT !.mounted = FALSE]]
Remove(seq, i) == SubSeq(seq, 1, i - 1) \o SubSeq(seq, i + 1, Len(seq))

\* navigate(to), given the page states and pending requests the handler leaves
navigate(to, lp, sreqs, rp, rreqs) ==
  /\ route' = to
  /\ loginPage' = IF to = "/login" /\ route = "/login" THEN lp ELSE LoginInitial
  /\ signinRequests' = IF to = "/login" /\ route = "/login" THEN sreqs ELSE Orphaned(sreqs)
  /\ registerPage' = IF to = "/register" /\ route = "/register" THEN rp ELSE RegisterInitial
  /\ registerRequests' = IF to = "/register" /\ route = "/register" THEN rreqs ELSE Orphaned(rreqs)

\* <Link to=...> on the Login and Register pages
Link ==
  \E to \in Routes :
    /\ \/ route = "/login" /\ to \in {"/register", "/dashboard"}
       \/ route = "/register" /\ to = "/login"
    /\ navigate(to, loginPage, signinRequests, registerPage, registerRequests)
    /\ UNCHANGED <<authVars, dashVars, navigateTimers>>

----------------------------------------------------------------------------
\* Login page

\* requests awaiting their response and redirect timers not yet fired
Pending == Len(signinRequests) + Len(registerRequests) + navigateTimers

EmailInputs == {"", "ann@x.io"}
PasswordInputs == {"", "secret"}

\* onChange of the email or the password input
LoginType ==
  /\ route = "/login"
  /\ \/ \E e \in EmailInputs : loginPage' = [loginPage EXCEPT !.email = e]
     \/ \E p \in PasswordInputs : loginPage' = [loginPage EXCEPT !.password = p]
  /\ UNCHANGED <<authVars, route, signinRequests, registerPage, registerRequests,
                 navigateTimers, dashVars>>

\* faulty variant: the submit event is delivered whatever the inputs hold
handleLogin_NotValidated ==
  /\ route = "/login"
  /\ ~loginPage.isLoading
  /\ Pending < MaxPending
  /\ loginPage' = [loginPage EXCEPT !.error = Null, !.isLoading = TRUE]
  /\ signinRequests' = Append(signinRequests,
       [mounted |-> TRUE, url |-> "/auth/signin",
        body |-> <<<<"email", loginPage.email>>, <<"password", loginPage.password>>>>])
  /\ UNCHANGED <<authVars, route, registerPage, registerRequests, navigateTimers, dashVars>>

\* the form's submit event: both inputs are `required`, the submit button is
\* disabled while isLoading
handleLogin ==
  /\ route = "/login"
  /\ loginPage.email # "" /\ loginPage.password # ""
  /\ ~loginPage.isLoading
  /\ Pending < MaxPending
  /\ loginPage' = [loginPage EXCEPT !.error = Null, !.isLoading = TRUE]
  /\ signinRequests' = Append(signinRequests,
       [mounted |-> TRUE, url |-> "/auth/signin",
        body |-> <<<<"email", loginPage.email>>, <<"password", loginPage.password>>>>])
  /\ UNCHANGED <<authVars, route, registerPage, registerRequests, navigateTimers, dashVars>>

\* handleLogin after the await, the request resolved: login, setIsLoading, navigate
SigninResolved ==
  \E i \in DOMAIN signinRequests, u \in Users, t \in Tokens :
    /\ login(u, t)
    /\ navigate("/dashboard",
                IF signinRequests[i].mounted THEN [loginPage EXCEPT !.isLoading = FALSE] ELSE loginPage,
                Remove(signinRequests, i), registerPage, registerRequests)
    /\ UNCHANGED <<navigateTimers, dashVars>>

\* handleLogin's catch
handleLoginCatch(i, detail) ==
  /\ loginPage' = IF signinRequests[i].mounted
                    THEN [loginPage EXCEPT !.isLoading = FALSE,
                                           !.error = Some(OrElse(detail, "Invalid email or password"))]
                    ELSE loginPage
  /\ signinRequests' = Remove(signinRequests, i)
  /\ UNCHANGED <<authVars, route, registerPage, registerRequests, navigateTimers, dashVars>>

\* request i is rejected, with or without err.response.data.detail
SigninRejected ==
  \E i \in DOMAIN signinRequests, detail \in Details : handleLoginCatch(i, detail)

----------------------------------------------------------------------------
\* Register page

NameInputs == {"", "Ann"}
OtpInputs == {"", "123456"}
\* passwords of 0, 72 and 73 characters
RegisterPasswordInputs ==
  {"",
   "pppppppppppppppppppppppppppppppppppppppppppppppppppppppppppppppppppppppp",
   "pppppppppppppppppppppppppppppppppppppppppppppppppppppppppppppppppppppppp" \o "x"}

\* onChange of an input of the form shown in the current step
RegisterType ==
  /\ route = "/register"
  /\ \/ /\ registerPage.step = "form"
        /\ \/ \E e \in EmailInputs : registerPage' = [registerPage EXCEPT !.email = e]
           \/ \E n \in NameInputs : registerPage' = [registerPage EXCEPT !.name = n]
           \/ \E p \in RegisterPasswordInputs : registerPage' = [registerPage EXCEPT !.password = p]
     \/ /\ registerPage.step = "otp"
        /\ \E o \in OtpInputs : registerPage' = [registerPage EXCEPT !.otp = o]
  /\ UNCHANGED <<authVars, route, loginPage, signinRequests, registerRequests,
                 navigateTimers, dashVars>>

\* faulty variant: a password of 72 characters is refused as well
handleRegisterSubmit_Refuses72 ==
  /\ route = "/register" /\ registerPage.step = "form"
  /\ registerPage.email # "" /\ registerPage.name # "" /\ registerPage.password # ""
  /\ ~registerPage.isLoading
  /\ IF Len(registerPage.password) >= 72
       THEN /\ registerPage' = [registerPage EXCEPT
                                  !.successMessage = Null,
                                  !.error = Some("Password must be 72 characters or less.")]
            /\ UNCHANGED registerRequests
       ELSE /\ Pending < MaxPending
            /\ registerPage' = [registerPage EXCEPT
                                  !.error = Null, !.successMessage = Null, !.isLoading = TRUE]
            /\ registerRequests' = Append(registerRequests,
                 [mounted |-> TRUE, url |-> "/auth/register/initiate",
                  body |-> <<<<"name", registerPage.name>>, <<"email", registerPage.email>>,
                             <<"password", registerPage.password>>, <<"user_type", "community">>>>,
                  email |-> registerPage.email])
  /\ UNCHANGED <<authVars, route, loginPage, signinRequests, navigateTimers, dashVars>>

\* Step 1, up to the await: the form of step 'form' is submitted (its inputs are
\* `required`, its button is disabled while isLoading)
handleRegisterSubmit ==
  /\ route = "/register" /\ registerPage.step = "form"
  /\ registerPage.email # "" /\ registerPage.name # "" /\ registerPage.password # ""
  /\ ~registerPage.isLoading
  /\ IF Len(registerPage.password) > 72
       THEN /\ registerPage' = [registerPage EXCEPT
                                  !.successMessage = Null,
                                  !.error = Some("Password must be 72 characters or less.")]
            /\ UNCHANGED registerRequests
       ELSE /\ Pending < MaxPending
            /\ registerPage' = [registerPage EXCEPT
                                  !.error = Null, !.successMessage = Null, !.isLoading = TRUE]
            /\ registerRequests' = Append(registerRequests,
                 [mounted |-> TRUE, url |-> "/auth/register/initiate",
                  body |-> <<<<"name", registerPage.name>>, <<"email", registerPage.email>>,
                             <<"password", registerPage.password>>, <<"user_type", "community">>>>,
                  email |-> registerPage.email])
  /\ UNCHANGED <<authVars, route, loginPage, signinRequests, navigateTimers, dashVars>>

\* Step 1 after the await, and its catch
InitiateResolved ==
  \E i \in DOMAIN registerRequests :
    /\ registerRequests[i].url = "/auth/register/initiate"
    /\ registerPage' = IF registerRequests[i].mounted
                         THEN [registerPage EXCEPT
                                 !.isLoading = FALSE, !.step = "otp",
                                 !.successMessage = Some("OTP sent to " \o registerRequests[i].email
                                                         \o ". Please check your inbox.")]
                         ELSE registerPage
    /\ registerRequests' = Remove(registerRequests, i)
    /\ UNCHANGED <<authVars, route, loginPage, signinRequests, navigateTimers, dashVars>>

\* faulty variant: a failed initiate moves on to the OTP step
handleRegisterSubmitCatch_Advances(i, detail) ==
  /\ registerRequests[i].url = "/auth/register/initiate"
  /\ registerPage' = IF registerRequests[i].mounted
                       THEN [registerPage EXCEPT
                               !.isLoading = FALSE, !.step = "otp",
                               !.error = Some(OrElse(detail, "Registration failed"))]
                       ELSE registerPage
  /\ registerRequests' = Remove(registerRequests, i)
  /\ UNCHANGED <<authVars, route, loginPage, signinRequests, navigateTimers, dashVars>>

handleRegisterSubmitCatch(i, detail) ==
  /\ registerRequests[i].url = "/auth/register/initiate"
  /\ registerPage' = IF registerRequests[i].mounted
                       THEN [registerPage EXCEPT
                               !.isLoading = FALSE,
                               !.error = Some(OrElse(detail, "Registration failed"))]
                       ELSE registerPage
  /\ registerRequests' = Remove(registerRequests, i)
  /\ UNCHANGED <<authVars, route, loginPage, signinRequests, navigateTimers, dashVars>>

\* the initiate request i is rejected, with or without err.response.data.detail
InitiateRejected ==
  \E i \in DOMAIN registerRequests, detail \in Details : handleRegisterSubmitCatch(i, detail)

\* Step 2, up to the await: the form of step 'otp' is submitted
handleOtpSubmit ==
  /\ route = "/register" /\ registerPage.step = "otp"
  /\ registerPage.otp # ""
  /\ ~registerPage.isLoading
  /\ Pending < MaxPending
  /\ registerPage' = [registerPage EXCEPT !.error = Null, !.isLoading = TRUE]
  /\ registerRequests' = Append(registerRequests,
       [mounted |-> TRUE, url |-> "/auth/register/verify",
        body |-> <<<<"email", registerPage.email>>, <<"otp_code", registerPage.otp>>>>,
        email |-> registerPage.email])
  /\ UNCHANGED <<authVars, route, loginPage, signinRequests, navigateTimers, dashVars>>

\* faulty variant: the verified account is signed in at once
VerifyResolved_CreatesSession ==
  \E i \in DOMAIN registerRequests, u \in Users, t \in Tokens :
    /\ registerRequests[i].url = "/auth/register/verify"
    /\ login(u, t)
    /\ registerPage' = IF registerRequests[i].mounted
                         THEN [registerPage EXCEPT
                                 !.isLoading = FALSE,
                                 !.successMessage = Some("Registration successful! Please log in.")]
                         ELSE registerPage
    /\ registerRequests' = Remove(registerRequests, i)
    /\ navigateTimers' = navigateTimers + 1
    /\ UNCHANGED <<route, loginPage, signinRequests, dashVars>>

\* Step 2 after the await: the account is verified; the page schedules
\* navigate('/login') and does not touch the session
VerifyResolved ==
  \E i \in DOMAIN registerRequests :
    /\ registerRequests[i].url = "/auth/register/verify"
    /\ registerPage' = IF registerRequests[i].mounted
                         THEN [registerPage EXCEPT
                                 !.isLoading = FALSE,
                                 !.successMessage = Some("Registration successful! Please log in.")]
                         ELSE registerPage
    /\ registerRequests' = Remove(registerRequests, i)
    /\ navigateTimers' = navigateTimers + 1
    /\ UNCHANGED <<authVars, route, loginPage, signinRequests, dashVars>>

handleOtpSubmitCatch(i, detail) ==
  /\ registerRequests[i].url = "/auth/register/verify"
  /\ registerPage' = IF registerRequests[i].mounted
                       THEN [registerPage EXCEPT
                               !.isLoading = FALSE,
                               !.error = Some(OrElse(detail, "Invalid OTP"))]
                       ELSE registerPage
  /\ registerRequests' = Remove(registerRequests, i)
  /\ UNCHANGED <<authVars, route, loginPage, signinRequests, navigateTimers, dashVars>>

\* the verify request i is rejected, with or without err.response.data.detail
VerifyRejected ==
  \E i \in DOMAIN registerRequests, detail \in Details : handleOtpSubmitCatch(i, detail)

\* setTimeout(() => navigate('/login'), 2000) fires; it is never cleared
NavigateTimerFires ==
  /\ navigateTimers > 0
  /\ navigateTimers' = navigateTimers - 1
  /\ navigate("/login", loginPage, signinRequests, registerPage, registerRequests)
  /\ UNCHANGED <<authVars, dashVars>>

----------------------------------------------------------------------------
\* Dashboard page.  The source holds two versions of the component; `version`
\* says which one is running: 1 is the one with fetchSummary, the insights
\* panel and the profile modal, 2 the one without them.

Versions == {1, 2}
Files == {"sales.csv"}
\* data.message of a successful upload
Messages == {"File processed"}

Card(id, title, content) == [id |-> id, title |-> title, content |-> content]

\* { ...r, ...patch }
Spread(r, patch) == [k \in DOMAIN r |-> IF k \in DOMAIN patch THEN patch[k] ELSE r[k]]
\* prev.map(r => r.id === tempId ? { ...r, ...patch } : r)
MapById(prev, tempId, patch) ==
  [i \in DOMAIN prev |-> IF prev[i].id = tempId THEN Spread(prev[i], patch) ELSE prev[i]]
\* prev.filter(r => r.title !== 'Welcome!')
WithoutWelcome(prev) == SelectSeq(prev, LAMBDA r : r.title # "Welcome!")

\* faulty variant: the new card replaces the list
WithNewCard_Replaces(prev, newCard) == <<newCard>>

\* prev => [newCard, ...prev.filter(r => r.title !== 'Welcome!')]
WithNewCard(prev, newCard) == <<newCard>> \o WithoutWelcome(prev)

\* CleaningModal's useState initial value
DefaultOptions ==
  [remove_duplicates |-> TRUE, fill_missing_values |-> TRUE, remove_empty_rows |-> TRUE,
   remove_empty_columns |-> TRUE, clean_text |-> TRUE, standardize_column_names |-> TRUE,
   optimize_data_types |-> TRUE, remove_outliers |-> FALSE, iqr_multiplier |-> "1.5",
   normalize_numeric |-> FALSE]
\* property order of the options object, as Object.entries walks it
OptionKeys ==
  <<"remove_duplicates", "fill_missing_values", "remove_empty_rows", "remove_empty_columns",
    "clean_text", "standardize_column_names", "optimize_data_types", "remove_outliers",
    "iqr_multiplier", "normalize_numeric">>
\* String(value) of an option: of a boolean, or of the number 1.5 (kept as its
\* decimal text)
String(opts, key) ==
  IF key = "iqr_multiplier" THEN opts[key] ELSE IF opts[key] THEN "true" ELSE "false"

\* String(value) of a property of the click event: an object gives
\* "[object <class>]"; a string, a number, a boolean, null and a function (its
\* source text) give their text
PropertyText(value) ==
  IF value.kind = "object" THEN "[object " \o value.text \o "]" ELSE value.text

\* The click event that the 'Apply & Upload' button of the first CleaningModal
\* hands to onConfirm, as the sequence of its enumerable properties in the
\* order Object.entries gives them: React's synthetic event of a mouse click
\* (the properties its constructor sets, then the fields of the mouse event
\* interface, then isDefaultPrevented and isPropagationStopped), here of a
\* primary-button click at the origin with no modifier key.
ClickEvents ==
  {<<<<"_reactName", [kind |-> "string", text |-> "onClick"]>>,
     <<"_targetInst", [kind |-> "object", text |-> "Object"]>>,
     <<"type", [kind |-> "string", text |-> "click"]>>,
     <<"nativeEvent", [kind |-> "object", text |-> "PointerEvent"]>>,
     <<"target", [kind |-> "object", text |-> "HTMLButtonElement"]>>,
     <<"currentTarget", [kind |-> "object", text |-> "HTMLButtonElement"]>>,
     <<"eventPhase", [kind |-> "number", text |-> "3"]>>,
     <<"bubbles", [kind |-> "boolean", text |-> "true"]>>,
     <<"cancelable", [kind |-> "boolean", text |-> "true"]>>,
     <<"timeStamp", [kind |-> "number", text |-> "1"]>>,
     <<"defaultPrevented", [kind |-> "boolean", text |-> "false"]>>,
     <<"isTrusted", [kind |-> "boolean", text |-> "true"]>>,
     <<"view", [kind |-> "object", text |-> "Window"]>>,
     <<"detail", [kind |-> "number", text |-> "1"]>>,
     <<"screenX", [kind |-> "number", text |-> "0"]>>,
     <<"screenY", [kind |-> "number", text |-> "0"]>>,
     <<"clientX", [kind |-> "number", text |-> "0"]>>,
     <<"clientY", [kind |-> "number", text |-> "0"]>>,
     <<"pageX", [kind |-> "number", text |-> "0"]>>,
     <<"pageY", [kind |-> "number", text |-> "0"]>>,
     <<"ctrlKey", [kind |-> "boolean", text |-> "false"]>>,
     <<"shiftKey", [kind |-> "boolean", text |-> "false"]>>,
     <<"altKey", [kind |-> "boolean", text |-> "false"]>>,
     <<"metaKey", [kind |-> "boolean", text |-> "false"]>>,
     <<"getModifierState",
       [kind |-> "function",
        text |-> "function getEventModifierState(nativeEvent) { return () => false; }"]>>,
     <<"button", [kind |-> "number", text |-> "0"]>>,
     <<"buttons", [kind |-> "number", text |-> "0"]>>,
     <<"relatedTarget", [kind |-> "null", text |-> "null"]>>,
     <<"movementX", [kind |-> "number", text |-> "0"]>>,
     <<"movementY", [kind |-> "number", text |-> "0"]>>,
     <<"isDefaultPrevented",
       [kind |-> "function", text |-> "function functionThatReturnsFalse() { return false; }"]>>,
     <<"isPropagationStopped",
       [kind |-> "function", text |-> "function functionThatReturnsFalse() { return false; }"]>>>>}

\* Object.entries(options) with String(value), of a CleaningOptions object and
\* of a click event
OptionEntries(opts) ==
  [i \in DOMAIN OptionKeys |-> <<OptionKeys[i], String(opts, OptionKeys[i])>>]
EventEntries(event) ==
  [i \in DOMAIN event |-> <<event[i][1], PropertyText(event[i][2])>>]

\* the FormData that uploadFile builds; entries are those of its second
\* argument, Null when it is called without one
FormData(file, userId, applyCleaning, entries) ==
  <<<<"file", file>>, <<"user_id", userId>>,
    <<"apply_cleaning", IF applyCleaning THEN "true" ELSE "false">>>>
  \o (IF applyCleaning /\ entries # Null THEN Val(entries) ELSE <<>>)

\* faulty variant: no error text is taken to mention LM Studio
IncludesLMStudio_Never(text) == FALSE

\* errorMsg.includes("LM Studio"), over the texts of the model
IncludesLMStudio(text) == text \in {"LM Studio connection refused"}

\* the calls of uploadFile that passed the guards: each left one card, and no
\* card but 'Welcome!' is ever removed
UploadsStarted == Len(WithoutWelcome(analysisResults))

\* What Date.now() can return when the greatest reading so far is latest: the
\* code takes whatever the clock gives, which is a new value or one read before
\* (two calls within the clock's precision, or a wall clock set back).  Card
\* ids are only compared for equality, so the readings are numbered in the
\* order of their first appearance.
DateNow(latest) == 1..(latest + 1)

\* the checkbox clicks of one Dashboard lifetime
MaxToggles == 1

\* the state of a freshly mounted Dashboard
DashboardMount ==
  /\ modalStep = "closed"
  /\ analysisResults = <<Card(now, "Welcome!", "Upload a file to get started.")>>
  /\ automatedInsights = Null
  /\ isProfileModalOpen = FALSE
  /\ selectedFile = Null
  /\ isUploading = FALSE
  /\ uploadError = Null
  /\ filePickerOpen = FALSE
  /\ uploads = <<>>
  /\ options = DefaultOptions
  /\ toggles = 0
  /\ leaving = Null
  /\ chatHistory = <<>>
  /\ message = <<>>
  /\ messageHistory = <<[from |-> "ai", text |-> <<"Hello! Upload your data to get started.">>]>>
  /\ replyTimers = 0

\* The native file chooser opened by fileInputRef.current.click() is modal: no
\* other input reaches the page while it is open.
UserCanAct == route = "/dashboard" /\ ~filePickerOpen

\* What the handlers that one render of the Dashboard hands to a modal close
\* over: uploadFile reads selectedFile, user and isAuthenticated of that render.
CurrentRender ==
  [selectedFile |-> selectedFile, user |-> user, isAuthenticated |-> isAuthenticated]

\* The modals are children of one <AnimatePresence> and carry no key, so it
\* tells them apart by the one key "".  When the last child rendered goes, it
\* stays mounted, with the handlers of its last render and its own state, until
\* its exit animation completes; nothing disables its buttons meanwhile.  A
\* child rendered again takes its place at once, and while another child (the
\* ProfileModal) is rendered a modal that goes is unmounted at once.
Exit ==
  leaving' = IF modalStep' # "closed" \/ isProfileModalOpen THEN Null
             ELSE IF modalStep # "closed"
               THEN Some([modal |-> modalStep, render |-> CurrentRender, options |-> options])
             ELSE leaving

\* useState(<defaults>) of the CleaningModal: the options of the modal rendered
\* are kept while it stays rendered, and start from the defaults when it mounts
Mount ==
  options' = IF modalStep = "cleaning_options" /\ modalStep' = "cleaning_options"
               THEN options ELSE DefaultOptions

\* the modals of one kind that can take a click: the one rendered and the one
\* leaving, each with the render its handlers come from and its options state
Instances(modal) ==
  (IF modalStep = modal
     THEN {[render |-> CurrentRender, options |-> options, present |-> TRUE]} ELSE {})
  \cup
  (IF leaving # Null /\ Val(leaving).modal = modal
     THEN {[render |-> Val(leaving).render, options |-> Val(leaving).options, present |-> FALSE]}
     ELSE {})

\* the exit animation of the leaving modal completes: it unmounts
ExitComplete ==
  /\ route = "/dashboard" /\ leaving # Null
  /\ leaving' = Null
  /\ UNCHANGED <<authVars, pageVars, chatVars, aiText, buildVars, modalStep, analysisResults,
                 automatedInsights, isProfileModalOpen, selectedFile, isUploading, uploadError,
                 filePickerOpen, uploads, now, options, toggles>>

\* click (or keyboard activation) of the upload area
handleUploadClick ==
  /\ UserCanAct
  /\ IF version = 1 /\ ~isAuthenticated
       THEN /\ uploadError' = Some("Please log in or register to upload files.")
            /\ UNCHANGED filePickerOpen
       ELSE /\ uploadError' = IF version = 1 THEN Null ELSE uploadError
            /\ filePickerOpen' = TRUE
  /\ UNCHANGED <<authVars, pageVars, chatVars, aiText, buildVars, modalStep, analysisResults,
                 automatedInsights, isProfileModalOpen, selectedFile, isUploading, uploads, now,
                 options, toggles, leaving>>

\* the file chooser closes: with a file (the input's change event), or without
handleFileChange ==
  /\ route = "/dashboard" /\ filePickerOpen
  /\ filePickerOpen' = FALSE
  /\ \E file \in {Null} \cup {Some(f) : f \in Files} :
       IF file # Null
         THEN /\ selectedFile' = file
              /\ modalStep' = "upload_prompt"
              /\ Mount
              /\ Exit
         ELSE UNCHANGED <<selectedFile, modalStep, options, leaving>>
  /\ UNCHANGED <<authVars, pageVars, chatVars, aiText, buildVars, analysisResults, automatedInsights,
                 isProfileModalOpen, isUploading, uploadError, uploads, now, toggles>>

\* 'Yes, Clean Data' of an UploadModal; a CleaningModal that mounts has its defaults
handleUploadConfirm ==
  /\ UserCanAct /\ Instances("upload_prompt") # {}
  /\ modalStep' = "cleaning_options"
  /\ Mount
  /\ Exit
  /\ UNCHANGED <<authVars, pageVars, chatVars, aiText, buildVars, analysisResults, automatedInsights,
                 isProfileModalOpen, selectedFile, isUploading, uploadError, filePickerOpen,
                 uploads, now, toggles>>

\* 'Cancel' of a CleaningModal
handleCleaningCancel ==
  /\ UserCanAct /\ Instances("cleaning_options") # {}
  /\ modalStep' = "closed"
  /\ Mount
  /\ Exit
  /\ UNCHANGED <<authVars, pageVars, chatVars, aiText, buildVars, analysisResults, automatedInsights,
                 isProfileModalOpen, selectedFile, isUploading, uploadError, filePickerOpen,
                 uploads, now, toggles>>

\* the checkboxes of the second CleaningModal (iqr_multiplier and
\* normalize_numeric have none)
ToggleKeys ==
  {"remove_duplicates", "fill_missing_values", "remove_empty_rows", "remove_empty_columns",
   "clean_text", "standardize_column_names", "optimize_data_types", "remove_outliers"}

\* a checkbox of a CleaningModal is clicked.  The checkboxes of the first
\* CleaningModal are uncontrolled (defaultChecked): clicking one changes no state.
handleChange ==
  /\ UserCanAct /\ modalVersion = 2 /\ toggles < MaxToggles
  /\ toggles' = toggles + 1
  /\ \E m \in Instances("cleaning_options"), option \in ToggleKeys :
       IF m.present
         THEN /\ options' = [options EXCEPT ![option] = ~options[option]]
              /\ UNCHANGED leaving
         ELSE /\ leaving' = Some([Val(leaving) EXCEPT !.options[option] = ~m.options[option]])
              /\ UNCHANGED options
  /\ UNCHANGED <<authVars, pageVars, chatVars, aiText, buildVars, modalStep, analysisResults,
                 automatedInsights, isProfileModalOpen, selectedFile, isUploading, uploadError,
                 filePickerOpen, uploads, now>>

\* the profile icon of the RightSidebar (version 1), and 'Cancel' of the ProfileModal
onProfileClick ==
  /\ UserCanAct /\ version = 1
  /\ isProfileModalOpen' = TRUE
  /\ leaving' = Null
  /\ UNCHANGED <<authVars, pageVars, chatVars, aiText, buildVars, modalStep, analysisResults,
                 automatedInsights, selectedFile, isUploading, uploadError, filePickerOpen,
                 uploads, now, options, toggles>>

onClose ==
  /\ UserCanAct /\ isProfileModalOpen
  /\ isProfileModalOpen' = FALSE
  /\ UNCHANGED <<authVars, pageVars, chatVars, aiText, buildVars, modalStep, analysisResults,
                 automatedInsights, selectedFile, isUploading, uploadError, filePickerOpen,
                 uploads, now, options, toggles, leaving>>

\* uploadFile's guards, over the render the call closes over: the message of
\* the guard that stops the call, or Null
uploadGuard(render) ==
  IF version = 1
    THEN IF ~render.isAuthenticated \/ render.user = Null
           THEN Some("Please log in to upload files.")
         ELSE IF render.selectedFile = Null THEN Some("No file selected.")
         ELSE Null
    ELSE IF render.selectedFile = Null \/ render.user = Null
           THEN Some("No file selected or user not found.")
           ELSE Null

\* a guard stops uploadFile: setUploadError(errorText); return
uploadRefused(errorText) ==
  /\ uploadError' = errorText
  /\ UNCHANGED <<modalStep, isUploading, automatedInsights, analysisResults, uploads, now>>

\* uploadFile up to its await: the guards, then the request is sent
uploadFile(render, applyCleaning, entries) ==
  IF uploadGuard(render) # Null
       THEN uploadRefused(uploadGuard(render))
       ELSE /\ UploadsStarted < MaxUploads
            /\ modalStep' = "closed"
            /\ isUploading' = TRUE
            /\ uploadError' = Null
            /\ automatedInsights' = IF version = 1 THEN Null ELSE automatedInsights
            \* const tempId = Date.now()
            /\ \E tempId \in DateNow(now) :
                 /\ now' = IF tempId > now THEN tempId ELSE now
                 /\ analysisResults' =
                      WithNewCard(analysisResults,
                        Card(tempId, "Uploading \"" \o Val(render.selectedFile) \o "\"...",
                             IF version = 1 THEN "Processing file and generating AI summary..."
                                            ELSE "Processing file..."))
                 /\ uploads' = Append(uploads,
                      [tempId |-> tempId, userId |-> Val(render.user).user_id,
                       awaiting |-> "/data/upload-file",
                       formData |-> FormData(Val(render.selectedFile), Val(render.user).user_id,
                                             applyCleaning, entries)])

\* 'No, Upload As-Is' of an UploadModal: uploadFile(false)
handleUploadCancel ==
  /\ UserCanAct
  /\ \E m \in Instances("upload_prompt") : uploadFile(m.render, FALSE, Null)
  /\ Mount
  /\ Exit
  /\ UNCHANGED <<authVars, pageVars, chatVars, aiText, buildVars, isProfileModalOpen, selectedFile,
                 filePickerOpen, toggles>>

\* What 'Apply & Upload' hands to onConfirm: the second CleaningModal its
\* options (onConfirm(options)), the first the click event (onClick={onConfirm}).
ConfirmArguments(opts) ==
  IF modalVersion = 2 THEN {OptionEntries(opts)} ELSE {EventEntries(e) : e \in ClickEvents}

\* 'Apply & Upload' of a CleaningModal: uploadFile(true, <argument>)
handleCleaningConfirm ==
  /\ UserCanAct
  /\ \E m \in Instances("cleaning_options") :
       \E entries \in ConfirmArguments(m.options) : uploadFile(m.render, TRUE, Some(entries))
  /\ Mount
  /\ Exit
  /\ UNCHANGED <<authVars, pageVars, chatVars, aiText, buildVars, isProfileModalOpen, selectedFile,
                 filePickerOpen, toggles>>

----------------------------------------------------------------------------
\* parseKeyStatistics.  A text is the sequence of its pieces: each piece is one
\* character the parser's regular expressions look at (newline, space, '-',
\* the bullet U+2022) or an unbroken run of other characters (a heading, a bold
\* marker, a word).  Join gives the JavaScript string.

NL == "\n"
SP == " "
DASH == "-"
\* the character U+2022
BULLET == "\\u2022"
BOLD == "**"
\* /## Key Statistics/i and /## Data Quality Assessment/i
KeyStatisticsHeadings == {"## Key Statistics", "## KEY STATISTICS"}
DataQualityHeadings == {"## Data Quality Assessment", "## data quality assessment"}
\* /### \w+ Insights:/
SubHeadings == {"### Numerical Insights:", "### Categorical Insights:"}
\* pieces that begin with "##"
HashPieces == KeyStatisticsHeadings \cup DataQualityHeadings \cup SubHeadings \cup {"## Summary"}
\* \s
IsSpace(c) == c \in {NL, SP}
IsBullet(c) == c \in {DASH, BULLET}

RECURSIVE Join(_)
Join(text) == IF text = <<>> THEN "" ELSE Head(text) \o Join(Tail(text))

Min(S) == CHOOSE m \in S : \A n \in S : m <= n
Max(S) == CHOOSE m \in S : \A n \in S : m >= n

\* String.prototype.trim
trim(text) ==
  LET solid == {i \in DOMAIN text : ~IsSpace(text[i])}
  IN IF solid = {} THEN <<>> ELSE SubSeq(text, Min(solid), Max(solid))

\* text.split('\n')
RECURSIVE split(_)
split(text) ==
  LET breaks == {i \in DOMAIN text : text[i] = NL}
  IN IF breaks = {} THEN <<text>>
     ELSE <<SubSeq(text, 1, Min(breaks) - 1)>> \o split(SubSeq(text, Min(breaks) + 1, Len(text)))

\* faulty variant: without a closing heading the section runs to the end
MatchSection_OpenEnded(rawText) ==
  LET starts == {i \in DOMAIN rawText : rawText[i] \in KeyStatisticsHeadings}
  IN IF starts = {} THEN Null
     ELSE LET ends == {j \in DOMAIN rawText : j > Min(starts) /\ rawText[j] \in DataQualityHeadings}
          IN Some(trim(SubSeq(rawText, Min(starts) + 1,
                              IF ends = {} THEN Len(rawText) ELSE Min(ends) - 1)))

\* rawText.match(/## Key Statistics\n*(.*?)\n*## Data Quality Assessment/is):
\* Null when there is no match, else Some(group 1)
MatchSection(rawText) ==
  LET starts == {i \in DOMAIN rawText : rawText[i] \in KeyStatisticsHeadings
                   /\ \E j \in DOMAIN rawText : j > i /\ rawText[j] \in DataQualityHeadings}
  IN IF starts = {} THEN Null
     ELSE LET p == Min(starts)
              \* the greedy \n* after the heading
              s == Min({i \in (p + 1)..Len(rawText) : rawText[i] # NL})
              \* the lazy group stops at the first place where \n*## Data Quality... matches
              q == Min({i \in s..Len(rawText) :
                          \E d \in i..Len(rawText) :
                            /\ rawText[d] \in DataQualityHeadings
                            /\ \A k \in i..(d - 1) : rawText[k] = NL})
          IN Some(SubSeq(rawText, s, q - 1))

\* rawText.match(/[-•].*?(?=\n\n|\n(##|$))/gs): the matches from position `from` on
RECURSIVE MatchBullets(_, _)
MatchBullets(rawText, from) ==
  LET n == Len(rawText)
      \* the newlines at which the lookahead succeeds
      stops == {t \in DOMAIN rawText :
                  /\ rawText[t] = NL
                  /\ \/ t = n
                     \/ t < n /\ (rawText[t + 1] = NL \/ rawText[t + 1] \in HashPieces)}
      begins == {i \in from..n : IsBullet(rawText[i]) /\ \E t \in stops : t > i}
  IN IF begins = {} THEN <<>>
     ELSE LET i == Min(begins)
              t == Min({u \in stops : u > i})
          IN <<SubSeq(rawText, i, t - 1)>> \o MatchBullets(rawText, t)

\* line.replace(/[-•]\s*/, ''): the first bullet character and the white space after it
StripBullet(line) ==
  LET bullets == {i \in DOMAIN line : IsBullet(line[i])}
  IN IF bullets = {} THEN line
     ELSE LET b == Min(bullets)
              rest == {i \in (b + 1)..Len(line) : ~IsSpace(line[i])}
          IN SubSeq(line, 1, b - 1)
             \o (IF rest = {} THEN <<>> ELSE SubSeq(line, Min(rest), Len(line)))

\* .replace(/^- /gm, "• ")
BulletDashes(text) ==
  [i \in DOMAIN text |->
     IF /\ text[i] = DASH
        /\ (i = 1 \/ text[i - 1] = NL)
        /\ i < Len(text) /\ text[i + 1] = SP
       THEN BULLET ELSE text[i]]

\* .replace(/\n\s*\n/g, "\n")
RECURSIVE SqueezeNewlines(_)
SqueezeNewlines(text) ==
  IF text = <<>> THEN <<>>
  ELSE IF Head(text) # NL THEN <<Head(text)>> \o SqueezeNewlines(Tail(text))
  ELSE LET solid == {i \in 2..Len(text) : ~IsSpace(text[i])}
           runEnd == IF solid = {} THEN Len(text) ELSE Min(solid) - 1
           later == {i \in 2..runEnd : text[i] = NL}
       IN IF later = {} THEN <<NL>> \o SqueezeNewlines(Tail(text))
          ELSE <<NL>> \o SqueezeNewlines(SubSeq(text, Max(later) + 1, Len(text)))

Placeholder == <<"Could not parse key statistics from AI response.">>

\* faulty variant: the bullet scan comes first, the section second
parseKeyStatistics_BulletsFirst(rawText) ==
  LET fallbackMatch == MatchBullets(rawText, 1)
      lines == [i \in DOMAIN fallbackMatch |-> trim(StripBullet(fallbackMatch[i]))]
      match == MatchSection(rawText)
  IN IF fallbackMatch # <<>>
       THEN [i \in DOMAIN SelectSeq(lines, LAMBDA l : Len(l) > 0) |->
               Join(SelectSeq(lines, LAMBDA l : Len(l) > 0)[i])]
       ELSE IF match = Null \/ Val(match) = <<>> THEN Placeholder
       ELSE LET kept == SelectSeq(split(trim(Val(match))), LAMBDA l : trim(l) # <<>>)
            IN [i \in DOMAIN kept |-> Join(kept[i])]

parseKeyStatistics(rawText) ==
  LET match == MatchSection(rawText)
  IN IF match = Null \/ Val(match) = <<>>
       THEN LET fallbackMatch == MatchBullets(rawText, 1)
                lines == [i \in DOMAIN fallbackMatch |-> trim(StripBullet(fallbackMatch[i]))]
            IN IF fallbackMatch # <<>>
                 THEN [i \in DOMAIN SelectSeq(lines, LAMBDA l : Len(l) > 0) |->
                         Join(SelectSeq(lines, LAMBDA l : Len(l) > 0)[i])]
                 ELSE Placeholder
       ELSE LET insights == Val(match)
                noSub == SelectSeq(insights, LAMBDA c : c \notin SubHeadings)
                noBold == SelectSeq(noSub, LAMBDA c : c # BOLD)
                cleanInsights == split(trim(SqueezeNewlines(BulletDashes(noBold))))
                kept == SelectSeq(cleanInsights, LAMBDA l : trim(l) # <<>>)
            IN [i \in DOMAIN kept |-> Join(kept[i])]

\* data.ai_insights of a summary response
AiInsights ==
  { <<"## Key Statistics", NL, DASH, SP, BOLD, "rows", BOLD, SP, "120", NL, NL,
      "## Data Quality Assessment", NL, "ok">>,
    <<"no", SP, "summary">> }

\* the Dashboard is shown
Mounted == route = "/dashboard"

\* A continuation that runs after the Dashboard was unmounted: React ignores
\* the state updates of a component that is no longer mounted, so of all the
\* continuation does only its effect on the requests is left
Unmounted(requests) ==
  /\ ~Mounted
  /\ uploads' = requests
  /\ UNCHANGED <<authVars, pageVars, chatVars, aiText, buildVars, toggles, leaving, modalStep,
                 analysisResults, automatedInsights, isProfileModalOpen, selectedFile,
                 isUploading, uploadError, filePickerOpen, now, options>>

\* uploadFile's finally
Finally ==
  /\ isUploading' = FALSE
  /\ selectedFile' = Null

\* the requests once fetchSummary(user.user_id, tempId) of upload i has sent its GET
SummaryRequested(i) ==
  [uploads EXCEPT ![i] =
     [tempId |-> uploads[i].tempId, userId |-> uploads[i].userId,
      awaiting |-> "/data/summarize/" \o uploads[i].userId, formData |-> <<>>]]

\* uploadFile's try block after the await of the POST.  Version 1 shows
\* data.message and calls fetchSummary, which sends its GET; version 2 is done.
uploadFileTry(i, dataMessage) ==
  LET tempId == uploads[i].tempId IN
  /\ uploads[i].awaiting = "/data/upload-file"
  /\ IF version = 1
       THEN /\ analysisResults' =
                 MapById(analysisResults, tempId, [content |-> dataMessage])
            /\ uploads' = SummaryRequested(i)
            /\ UNCHANGED <<isUploading, selectedFile>>
       ELSE /\ analysisResults' =
                 MapById(analysisResults, tempId,
                         [title |-> "Upload Complete!", content |-> dataMessage])
            /\ uploads' = Remove(uploads, i)
            /\ Finally
  /\ UNCHANGED <<authVars, pageVars, chatVars, aiText, buildVars, toggles, leaving, modalStep, automatedInsights, isProfileModalOpen,
                 uploadError, filePickerOpen, now, options>>

\* the POST of upload i succeeds.  The code after the await runs whether or not
\* the Dashboard is still mounted: the first version sends its GET in either case.
UploadResolved(i) ==
  \E dataMessage \in Messages :
    IF Mounted
      THEN uploadFileTry(i, dataMessage)
      ELSE /\ uploads[i].awaiting = "/data/upload-file"
           /\ Unmounted(IF version = 1 THEN SummaryRequested(i) ELSE Remove(uploads, i))

\* faulty variant: the catch leaves the insights panel as it is
uploadFileCatch_InsightsKept(i, detail) ==
  LET tempId == uploads[i].tempId
      errorMsg == OrElse(detail, "File upload failed.")
  IN
  /\ uploads[i].awaiting = "/data/upload-file"
  /\ uploadError' = Some(errorMsg)
  /\ analysisResults' =
       MapById(analysisResults, tempId, [title |-> "Upload Failed", content |-> errorMsg])
  /\ uploads' = Remove(uploads, i)
  /\ Finally
  /\ UNCHANGED <<authVars, pageVars, chatVars, aiText, buildVars, toggles, leaving, modalStep, isProfileModalOpen, filePickerOpen,
                 now, options, automatedInsights>>

\* uploadFile's catch, then finally
uploadFileCatch(i, detail) ==
  LET tempId == uploads[i].tempId
      errorMsg == OrElse(detail, "File upload failed.")
  IN
  /\ uploads[i].awaiting = "/data/upload-file"
  /\ uploadError' = Some(errorMsg)
  /\ analysisResults' =
       MapById(analysisResults, tempId, [title |-> "Upload Failed", content |-> errorMsg])
  /\ automatedInsights' = IF version = 1 THEN Some(<<"Failed to load insights. " \o errorMsg>>)
                                         ELSE automatedInsights
  /\ uploads' = Remove(uploads, i)
  /\ Finally
  /\ UNCHANGED <<authVars, pageVars, chatVars, aiText, buildVars, toggles, leaving, modalStep, isProfileModalOpen, filePickerOpen,
                 now, options>>

\* the POST of upload i is rejected, with or without err.response.data.detail
UploadRejected(i) ==
  \E detail \in Details :
    IF Mounted
      THEN uploadFileCatch(i, detail)
      ELSE /\ uploads[i].awaiting = "/data/upload-file"
           /\ Unmounted(Remove(uploads, i))

\* fetchSummary's try block after its await, then uploadFile's finally
fetchSummaryTry(i, ai_insights) ==
  LET tempId == uploads[i].tempId IN
  /\ uploads[i].awaiting # "/data/upload-file"
  /\ automatedInsights' = Some(parseKeyStatistics(ai_insights))
  /\ analysisResults' =
       MapById(analysisResults, tempId,
               [title |-> "Analysis Complete",
                content |-> "Key statistics are in the 'Automated Insights' panel. Chat with the AI assistant for more details."])
  /\ uploads' = Remove(uploads, i)
  /\ Finally
  /\ UNCHANGED <<authVars, pageVars, chatVars, aiText, buildVars, toggles, leaving, modalStep, isProfileModalOpen, uploadError,
                 filePickerOpen, now, options>>

\* the GET of upload i succeeds
SummaryResolved(i) ==
  \E ai_insights \in AiInsights :
    IF Mounted
      THEN fetchSummaryTry(i, ai_insights)
      ELSE /\ uploads[i].awaiting # "/data/upload-file"
           /\ Unmounted(Remove(uploads, i))

\* fetchSummary's catch, then uploadFile's finally
fetchSummaryCatch(i, detail) ==
  LET tempId == uploads[i].tempId
      raw == OrElse(detail, "Failed to fetch summary.")
      errorMsg == IF IncludesLMStudio(raw)
                    THEN "AI server is not running. Please start LM Studio."
                    ELSE raw
  IN
  /\ uploads[i].awaiting # "/data/upload-file"
  /\ analysisResults' =
       MapById(analysisResults, tempId, [title |-> "Summary Failed", content |-> errorMsg])
  /\ automatedInsights' = Some(<<"Failed to load insights. " \o errorMsg>>)
  /\ uploads' = Remove(uploads, i)
  /\ Finally
  /\ UNCHANGED <<authVars, pageVars, chatVars, aiText, buildVars, toggles, leaving, modalStep, isProfileModalOpen, uploadError,
                 filePickerOpen, now, options>>

\* the GET of upload i is rejected, with or without err.response.data.detail
SummaryRejected(i) ==
  \E detail \in SummaryDetails :
    IF Mounted
      THEN fetchSummaryCatch(i, detail)
      ELSE /\ uploads[i].awaiting # "/data/upload-file"
           /\ Unmounted(Remove(uploads, i))

-----------------------------------------------------------------------------
\* RightSidebar: the chat.  A text is a sequence of pieces, as for the insight
\* parser; what the user types has one character per piece, the fixed texts
\* of the assistant are one piece.  The
\* first version of Dashboard passes setChatHistory and onProfileClick; the
\* second renders a RightSidebar without props, whose source is not in the
\* repository, so the chat is modelled under the first.

MaxMessages == 2

\* message.length > 20, message.substring(0, 20)
TitleLimit == 20

Alphabet == <<"a", "b", "c", "d", "e", "f", "g", "h", "i", "j", "k", "l", "m", "n",
              "o", "p", "q", "r", "s", "t", "u">>

\* what the user types: nothing, blanks, a short text with blanks around it, a
\* text of exactly TitleLimit characters and one of TitleLimit + 1
ChatInputs ==
  { <<>>, <<SP, SP>>, <<SP, "h", "i", SP>>,
    SubSeq(Alphabet, 1, TitleLimit), SubSeq(Alphabet, 1, TitleLimit + 1) }

\* message.substring(0, n)
substring(text, n) == SubSeq(text, 1, IF n < Len(text) THEN n ELSE Len(text))

\* new Date(t).toISOString() for a clock reading of a single digit
toISOString(t) == "1970-01-01T00:00:00.00" \o ToString(t) \o "Z"

\* message.length > 20 ? message.substring(0, 20) + "..." : message
newChatTitle(text) ==
  IF Len(text) > TitleLimit THEN substring(text, TitleLimit) \o <<".", ".", ".">> ELSE text

\* faulty variant: every message counts as the first
IsFirstMessage_Always == TRUE

\* messageHistory.length === 1: it contains only the initial AI greeting
IsFirstMessage == Len(messageHistory) = 1

UserMessages == SelectSeq(messageHistory, LAMBDA m : m.from = "user")

\* onChange of the chat input
setMessage ==
  /\ UserCanAct /\ version = 1
  /\ \E text \in ChatInputs : message' = text
  /\ UNCHANGED <<authVars, pageVars, buildVars, toggles, leaving, modalStep, analysisResults, automatedInsights,
                 isProfileModalOpen, selectedFile, isUploading, uploadError, filePickerOpen,
                 uploads, now, options, aiText, messageHistory, replyTimers, chatHistory>>

\* submit of the chat form
handleSendMessage ==
  /\ UserCanAct /\ version = 1
  /\ IF trim(message) = <<>>
       THEN UNCHANGED chatVars
       ELSE /\ Len(UserMessages) < MaxMessages
            /\ messageHistory' = Append(messageHistory, [from |-> "user", text |-> message])
            /\ chatHistory' =
                 IF IsFirstMessage
                   THEN <<[id |-> toISOString(now), title |-> newChatTitle(message)]>> \o chatHistory
                   ELSE chatHistory
            /\ message' = <<>>
            /\ replyTimers' = replyTimers + 1
  /\ UNCHANGED <<authVars, pageVars, buildVars, toggles, leaving, modalStep, analysisResults, automatedInsights,
                 isProfileModalOpen, selectedFile, isUploading, uploadError, filePickerOpen,
                 uploads, now, options, aiText>>

\* setTimeout(..., 1000) fires: the placeholder reply of the assistant.  The
\* timer is not cleared when the sidebar unmounts: its callback still runs, and
\* React ignores the setMessageHistory of the unmounted sidebar.
ReplyTimerFires ==
  /\ replyTimers > 0
  /\ replyTimers' = replyTimers - 1
  /\ messageHistory' =
       IF Mounted
         THEN Append(messageHistory, [from |-> "ai", text |-> <<"Processing your request...">>])
         ELSE messageHistory
  /\ UNCHANGED <<authVars, pageVars, buildVars, toggles, leaving, modalStep, analysisResults, automatedInsights,
                 isProfileModalOpen, selectedFile, isUploading, uploadError, filePickerOpen,
                 uploads, now, options, aiText, message, chatHistory>>

----------------------------------------------------------------------------
\* The browser reloads the page: every component is created afresh, pending
\* requests and timers are gone, local storage and the location stay.  (The
\* Dashboard is not used in the session specification, so its state is the
\* initial one before and after.)
Reload ==
  /\ token' = MountedToken(localStorage)
  /\ user' = MountedUser(localStorage)
  /\ sessionOp' = [sessionOp EXCEPT !.reloaded = TRUE]
  /\ loginPage' = LoginInitial
  /\ registerPage' = RegisterInitial
  /\ signinRequests' = <<>>
  /\ registerRequests' = <<>>
  /\ navigateTimers' = 0
  /\ UNCHANGED <<localStorage, route, dashVars>>

\* logout() of the AuthContext
Logout ==
  /\ logout
  /\ UNCHANGED <<pageVars, dashVars>>

----------------------------------------------------------------------------
\* Specification of the session, the Login page and the Register page: the app
\* is opened at any of its URLs with any stored session.

InitAuth ==
  /\ localStorage \in InitialStorage
  /\ token = MountedToken(localStorage)
  /\ user = MountedUser(localStorage)
  /\ sessionOp = SessionOp("start", <<>>, FALSE)
  /\ route \in Routes \cup {RootRedirect(token)}
  /\ loginPage = LoginInitial
  /\ signinRequests = <<>>
  /\ registerPage = RegisterInitial
  /\ registerRequests = <<>>
  /\ navigateTimers = 0
  /\ version = 1
  /\ modalVersion = 2
  /\ now = 0
  /\ DashboardMount
  /\ aiText = <<>>

NextAuth ==
  \/ Link
  \/ LoginType
  \/ handleLogin
  \/ SigninResolved
  \/ SigninRejected
  \/ RegisterType
  \/ handleRegisterSubmit
  \/ InitiateResolved
  \/ InitiateRejected
  \/ handleOtpSubmit
  \/ VerifyResolved
  \/ VerifyRejected
  \/ NavigateTimerFires
  \/ Logout
  \/ Reload

SpecAuth == InitAuth /\ [][NextAuth]_vars

----------------------------------------------------------------------------
\* Specification of one Dashboard lifetime: the Dashboard has just mounted,
\* with the session AuthProvider restored from local storage (one stored token
\* stands for all).  Nothing the Dashboard renders calls login or logout, but
\* the Login and Register pages may have been left ('Login here', 'Continue
\* with Free Trial') with requests awaiting their response or a redirect timer
\* running: their continuations run while the Dashboard is shown, login()
\* changes the session under it, and the timer's navigate('/login') unmounts
\* it.  The requests and timers of the Dashboard outlive it in the same way:
\* after the step that unmounts it their continuations still run, with their
\* state updates ignored.  The pages shown after it are the subject of SpecAuth.

DashboardStorage == {s \in InitialStorage : s.token = Null => s.user = Null}

\* the two versions of the CleaningModal component that the source holds
ModalVersions == {1, 2}

\* the requests of pages left behind, one of each kind
OrphanSignin ==
  [mounted |-> FALSE, url |-> "/auth/signin",
   body |-> <<<<"email", "ann@x.io">>, <<"password", "secret">>>>]
OrphanInitiate ==
  [mounted |-> FALSE, url |-> "/auth/register/initiate",
   body |-> <<<<"name", "Ann">>, <<"email", "ann@x.io">>, <<"password", "secret">>,
              <<"user_type", "community">>>>,
   email |-> "ann@x.io"]
OrphanVerify ==
  [mounted |-> FALSE, url |-> "/auth/register/verify",
   body |-> <<<<"email", "ann@x.io">>, <<"otp_code", "123456">>>>,
   email |-> "ann@x.io"]

\* the sequences of at most n elements of S
SeqsUpTo(S, n) == UNION {[1..k -> S] : k \in 0..n}

\* the requests and timers of pages left behind when the Dashboard mounts
MaxPendingAtMount == 1

\* What is pending when the Dashboard mounts: the sign-in requests of Login
\* pages and the requests of Register pages still awaiting their response, and
\* the redirect timers not yet fired
PendingAtMount ==
  {p \in [signin : SeqsUpTo({OrphanSignin}, MaxPendingAtMount),
          register : SeqsUpTo({OrphanInitiate, OrphanVerify}, MaxPendingAtMount),
          timers : 0..MaxPendingAtMount] :
     Len(p.signin) + Len(p.register) + p.timers <= MaxPendingAtMount}

Init ==
  /\ localStorage \in DashboardStorage
  /\ token = MountedToken(localStorage)
  /\ user = MountedUser(localStorage)
  /\ sessionOp = SessionOp("start", <<>>, FALSE)
  /\ route = "/dashboard"
  /\ loginPage = LoginInitial
  /\ registerPage = RegisterInitial
  /\ \E p \in PendingAtMount :
       /\ signinRequests = p.signin
       /\ registerRequests = p.register
       /\ navigateTimers = p.timers
  /\ version \in Versions
  /\ modalVersion \in ModalVersions
  /\ now = 0
  /\ DashboardMount
  /\ aiText = <<>>

Next ==
  \/ handleUploadClick
  \/ handleFileChange
  \/ handleUploadConfirm
  \/ handleUploadCancel
  \/ handleChange
  \/ handleCleaningConfirm
  \/ handleCleaningCancel
  \/ ExitComplete
  \/ onProfileClick
  \/ onClose
  \/ Mounted /\ SigninResolved
  \/ Mounted /\ SigninRejected
  \/ Mounted /\ InitiateResolved
  \/ Mounted /\ InitiateRejected
  \/ Mounted /\ VerifyResolved
  \/ Mounted /\ VerifyRejected
  \/ Mounted /\ NavigateTimerFires
  \/ \E i \in DOMAIN uploads : UploadResolved(i)
  \/ \E i \in DOMAIN uploads : UploadRejected(i)
  \/ \E i \in DOMAIN uploads : SummaryResolved(i)
  \/ \E i \in DOMAIN uploads : SummaryRejected(i)

Spec == Init /\ [][Next]_vars

\* a response to an outstanding request arrives and the code after its await runs
Responses ==
  \E i \in DOMAIN uploads :
    UploadResolved(i) \/ UploadRejected(i) \/ SummaryResolved(i) \/ SummaryRejected(i)

\* The same Dashboard lifetime when every request gets its response in the end
\* (the event loop runs a settled promise's continuation)
SpecLive == Init /\ [][Next]_vars /\ WF_vars(Responses)

-----------------------------------------------------------------------------
\* Specification of the chat of one Dashboard lifetime (first version), with
\* what the pages before it left pending

InitChat ==
  /\ Init
  /\ version = 1
  /\ modalVersion = 2

NextChat ==
  \/ setMessage
  \/ handleSendMessage
  \/ ReplyTimerFires
  \/ Mounted /\ SigninResolved
  \/ Mounted /\ SigninRejected
  \/ Mounted /\ InitiateResolved
  \/ Mounted /\ InitiateRejected
  \/ Mounted /\ VerifyResolved
  \/ Mounted /\ VerifyRejected
  \/ Mounted /\ NavigateTimerFires

SpecChat == InitChat /\ [][NextChat]_vars

\* The same chat when every timer set by setTimeout fires in the end
SpecChatLive == InitChat /\ [][NextChat]_vars /\ WF_vars(ReplyTimerFires)

-----------------------------------------------------------------------------
\* Specification of the insight parser: a summary response with any of the
\* texts below arrives and fetchSummary parses it.

MaxPieces == 5

ParserPieces ==
  {NL, SP, DASH, BULLET, BOLD, "## Key Statistics", "## Data Quality Assessment",
   "### Numerical Insights:", "rows"}

\* every text of at most n pieces
TextsUpTo(n) == UNION {[1..k -> ParserPieces] : k \in 0..n}

\* longer responses: bullets before, inside and after the section; headings in
\* another case; bullets only
SampleTexts ==
  { <<DASH, SP, "intro", NL, NL, "## Key Statistics", NL, "### Numerical Insights:", NL,
      DASH, SP, BOLD, "rows", BOLD, SP, "120", NL, NL, "## Data Quality Assessment", NL,
      DASH, SP, "ok", NL>>,
    <<"## KEY STATISTICS", NL, BULLET, SP, "cols", NL, "## data quality assessment">>,
    <<"Summary", NL, DASH, SP, "rows", NL, NL, BULLET, SP, "cols", NL>> }

ParserTexts == TextsUpTo(MaxPieces) \cup AiInsights \cup SampleTexts

\* the summary response of the upload carries the text: fetchSummary parses
\* it, shows the result and completes the card
ParseInsights ==
  \E i \in DOMAIN uploads : fetchSummaryTry(i, aiText)

\* A Dashboard of a signed-in user where one upload has got the response to
\* its POST and awaits its summary
InitParser ==
  /\ localStorage = [token |-> Some("tokA"),
                     user |-> Some(JSONstringify(CHOOSE u \in Users : u.user_id = "u1"))]
  /\ token = MountedToken(localStorage)
  /\ user = MountedUser(localStorage)
  /\ sessionOp = SessionOp("start", <<>>, FALSE)
  /\ route = "/dashboard"
  /\ loginPage = LoginInitial
  /\ signinRequests = <<>>
  /\ registerPage = RegisterInitial
  /\ registerRequests = <<>>
  /\ navigateTimers = 0
  /\ version = 1
  /\ modalVersion = 2
  /\ now = 1
  /\ modalStep = "closed"
  /\ analysisResults = <<Card(1, "Uploading \"sales.csv\"...", "File processed")>>
  /\ automatedInsights = Null
  /\ isProfileModalOpen = FALSE
  /\ selectedFile = Some("sales.csv")
  /\ isUploading = TRUE
  /\ uploadError = Null
  /\ filePickerOpen = FALSE
  /\ uploads = <<[tempId |-> 1, userId |-> "u1", awaiting |-> "/data/summarize/u1",
                  formData |-> <<>>]>>
  /\ options = DefaultOptions
  /\ toggles = 0
  /\ leaving = Null
  /\ chatHistory = <<>>
  /\ message = <<>>
  /\ messageHistory = <<[from |-> "ai", text |-> <<"Hello! Upload your data to get started.">>]>>
  /\ replyTimers = 0
  /\ aiText \in ParserTexts

NextParser == ParseInsights

SpecParser == InitParser /\ [][NextParser]_vars

-----------------------------------------------------------------------------
\* Properties of the Dashboard (specification Spec)

\* the step sends a POST to /data/upload-file
PostSent ==
  /\ Len(uploads') = Len(uploads) + 1
  /\ uploads'[Len(uploads')].awaiting = "/data/upload-file"
  /\ \A i \in DOMAIN uploads : uploads'[i] = uploads[i]

\* the step is a click on 'No, Upload As-Is' or on 'Apply & Upload'
TerminalAction == handleUploadCancel \/ handleCleaningConfirm

\* a file is selected and the user is authenticated
ReadyToUpload == selectedFile # Null /\ isAuthenticated /\ user # Null

\* C1: a POST to /data/upload-file is sent only from a state where a file is
\* selected and the user is authenticated (token present, user loaded); when
\* uploadFile is called with either condition missing, no request is sent,
\* uploadError is set, and modalStep, isUploading and analysisResults are left
\* unchanged.
C1_UploadOnlyWhenReady ==
  [][/\ Len(uploads') > Len(uploads) => ReadyToUpload /\ PostSent
     /\ (TerminalAction /\ ~ReadyToUpload)
          => /\ uploads' = uploads
             /\ uploadError' # Null
             /\ UNCHANGED <<modalStep, isUploading, analysisResults>>]_vars

\* C2: every terminal action of the upload flow ('No, Upload As-Is',
\* 'Apply & Upload') triggers exactly one POST to /data/upload-file, never zero
\* and never more than one, and no other step (a failed request among them)
\* sends the request again.
C2_ExactlyOnePost ==
  [][/\ TerminalAction => PostSent
     /\ Len(uploads') > Len(uploads) => TerminalAction /\ PostSent]_vars

\* the transitions of modalStep the flow allows, each with the click that makes it
AllowedTransition ==
  \/ modalStep = "closed" /\ modalStep' = "upload_prompt" /\ handleFileChange
  \/ modalStep = "upload_prompt" /\ modalStep' = "cleaning_options" /\ handleUploadConfirm
  \/ modalStep = "upload_prompt" /\ modalStep' = "closed" /\ handleUploadCancel
  \/ modalStep = "cleaning_options" /\ modalStep' = "closed"
       /\ (handleCleaningCancel \/ handleCleaningConfirm)

\* C3: modalStep is a linear state machine: its only transitions are
\* closed -> upload_prompt, upload_prompt -> cleaning_options,
\* upload_prompt -> closed and cleaning_options -> closed, each made by the
\* user's click; cleaning_options -> upload_prompt and closed ->
\* cleaning_options never happen.
C3_LinearModalFlow ==
  [][modalStep' # modalStep => AllowedTransition]_vars

\* C4: at most one of the upload prompt, the cleaning modal and the profile
\* modal is rendered at any time.
C4_OneModalAtATime ==
  ~(modalStep # "closed" /\ isProfileModalOpen)

\* every card that is not the 'Welcome!' placeholder is still in the list after
\* the step
CardsKept(keepWelcome) ==
  \A i \in DOMAIN analysisResults :
    (keepWelcome \/ analysisResults[i].title # "Welcome!")
      => \E j \in DOMAIN analysisResults' : analysisResults'[j].id = analysisResults[i].id

\* C9 (as stated): analysisResults is append-only: no operation of Dashboard
\* removes an entry that is in the list.
C9_AppendOnly ==
  [][CardsKept(TRUE)]_vars

\* C9 (amended): no operation of Dashboard removes an entry of analysisResults
\* other than the initial 'Welcome!' placeholder, which starting an upload
\* drops; upload cards are only added at the front or updated.
C9_AppendOnlyButWelcome ==
  [][/\ CardsKept(FALSE)
     /\ Len(analysisResults') >= Len(WithoutWelcome(analysisResults))
     /\ \A i \in DOMAIN analysisResults :
          analysisResults[i].title = "Welcome!" /\ analysisResults' # analysisResults
            => Len(uploads') > Len(uploads)]_vars

\* a second upload was started and the card of the first is still listed
C9_Witness ==
  /\ Len(analysisResults) >= 2
  /\ \A i \in DOMAIN analysisResults : analysisResults[i].title # "Welcome!"

\* the step is the resolution (success or failure) of the upload-file or the
\* summarize request of upload i
Resolution(i) ==
  UploadResolved(i) \/ UploadRejected(i) \/ SummaryResolved(i) \/ SummaryRejected(i)

\* only a card with this id may differ after the step, and one card at most
OnlyCardChanged(tempId) ==
  /\ Len(analysisResults') = Len(analysisResults)
  /\ \A k \in DOMAIN analysisResults :
       /\ analysisResults'[k].id = analysisResults[k].id
       /\ analysisResults[k].id # tempId => analysisResults'[k] = analysisResults[k]
  /\ Cardinality({k \in DOMAIN analysisResults : analysisResults'[k] # analysisResults[k]}) <= 1

\* C10: when an upload or summarize call resolves (success or failure), only
\* the card whose id is the tempId of that upload changes: every other card
\* keeps its title and content, and the length and order of analysisResults
\* are unchanged.
C10_OnlyOwnCardChanges ==
  [][\A i \in DOMAIN uploads : Resolution(i) => OnlyCardChanged(uploads[i].tempId)]_vars

-----------------------------------------------------------------------------
\* Properties of the session (specification SpecAuth)

\* the session is the one the last login was called with, in memory and in
\* local storage
LoggedIn ==
  /\ sessionOp.op = "login"
  /\ user = Some(sessionOp.args[1])
  /\ token = Some(sessionOp.args[2])
  /\ getItem(localStorage, "token") = Some(sessionOp.args[2])
  /\ getItem(localStorage, "user") = Some(JSONstringify(sessionOp.args[1]))
  /\ isAuthenticated

\* C5: after a successful sign-in, login(user, access_token) creates the
\* session: the in-memory user and token are the values the backend returned,
\* the token and the serialized user are in local storage under 'token' and
\* 'user', isAuthenticated is true, and the app navigates to /dashboard.
C5_SigninCreatesSession ==
  [][SigninResolved => LoggedIn' /\ route' = "/dashboard"]_vars

\* a sign-in has just succeeded
C5_Witness ==
  /\ sessionOp.op = "login" /\ ~sessionOp.reloaded
  /\ route = "/dashboard"
  /\ isAuthenticated

\* C6 (as stated): a session is created on registration verification: after a
\* successful POST /auth/register/verify the user and the token are set and
\* persisted in local storage, so the user is authenticated.
C6_VerifyCreatesSession ==
  [][VerifyResolved =>
       /\ isAuthenticated' /\ user' # Null
       /\ getItem(localStorage', "token") # Null
       /\ getItem(localStorage', "user") # Null]_vars

\* C6 (amended): registration verification creates no session: a successful
\* POST /auth/register/verify leaves the in-memory user and token and local
\* storage as they were, shows 'Registration successful! Please log in.' and
\* schedules the navigation to /login.
C6_VerifyLeavesSession ==
  [][VerifyResolved =>
       /\ UNCHANGED <<user, token, localStorage>>
       /\ navigateTimers' = navigateTimers + 1
       /\ registerPage' # registerPage =>
            registerPage'.successMessage = Some("Registration successful! Please log in.")]_vars

\* an account has been verified and the visitor still has no session
C6_Witness ==
  /\ registerPage.successMessage = Some("Registration successful! Please log in.")
  /\ ~isAuthenticated /\ user = Null
  /\ getItem(localStorage, "token") = Null /\ getItem(localStorage, "user") = Null

\* C7: after logout, from any session state, the session is cleared: the
\* in-memory user and token are null, local storage holds neither 'token' nor
\* 'user', isAuthenticated is false, and a later reload stays unauthenticated.
C7_LogoutClearsSession ==
  sessionOp.op = "logout" =>
    /\ user = Null /\ token = Null
    /\ getItem(localStorage, "token") = Null
    /\ getItem(localStorage, "user") = Null
    /\ ~isAuthenticated

\* the page was reloaded after a logout
C7_Witness ==
  sessionOp.op = "logout" /\ sessionOp.reloaded

\* C8: the session survives a reload: when AuthProvider mounts with the token
\* and the user that login left in local storage, the restored token and user
\* equal the ones passed to that login.
C8_SessionSurvivesReload ==
  (sessionOp.op = "login" /\ sessionOp.reloaded) =>
    /\ user = Some(sessionOp.args[1])
    /\ token = Some(sessionOp.args[2])
    /\ isAuthenticated

\* the page was reloaded after a login
C8_Witness ==
  /\ sessionOp.op = "login" /\ sessionOp.reloaded
  /\ user # Null

-----------------------------------------------------------------------------
\* Further properties of the Dashboard (specification Spec)

\* C11: for a user the app cannot authenticate the upload flow cannot start: a
\* click on the upload area while isAuthenticated is false sets uploadError and
\* does not open the file picker, so while the user is unauthenticated
\* modalStep stays 'closed' and selectedFile stays null.
C11_UnauthenticatedCannotStart ==
  [][~isAuthenticated =>
       /\ handleUploadClick => uploadError' # Null /\ ~filePickerOpen'
       /\ modalStep' = "closed" /\ selectedFile' = Null]_vars

-----------------------------------------------------------------------------
\* Properties of the chat (specification SpecChat)

\* the step sends the first non-blank message of the chat
FirstMessageSent == handleSendMessage /\ trim(message) # <<>> /\ UserMessages = <<>>

\* C12: a ChatSession is derived from the first user chat message only: sending
\* the first non-blank message prepends exactly one ChatSession whose title is
\* the message when it has at most 20 characters and else its first 20
\* characters followed by '...'; every later message and every blank message
\* adds none, so one sidebar never creates more than one.
C12_OneChatSession ==
  [][/\ FirstMessageSent =>
          /\ Len(chatHistory') = Len(chatHistory) + 1
          /\ Tail(chatHistory') = chatHistory
          /\ chatHistory'[1].title =
               IF Len(message) <= TitleLimit THEN message
               ELSE SubSeq(message, 1, TitleLimit) \o <<".", ".", ".">>
     /\ ~FirstMessageSent => chatHistory' = chatHistory
     /\ Len(chatHistory') <= 1]_vars

\* two messages were sent, the first of more than 20 characters, and there is
\* one ChatSession, with the shortened title
C12_Witness ==
  /\ Len(UserMessages) = 2
  /\ Len(UserMessages[1].text) > TitleLimit
  /\ Len(chatHistory) = 1
  /\ Len(chatHistory[1].title) = TitleLimit + 3

-----------------------------------------------------------------------------
\* Properties of the insight parser (specification SpecParser)

\* the text has a 'Key Statistics' heading with a 'Data Quality Assessment'
\* heading somewhere after it
HasSection(text) ==
  \E i, j \in DOMAIN text :
    i < j /\ text[i] \in KeyStatisticsHeadings /\ text[j] \in DataQualityHeadings

\* the text has a '-' or a bullet character
HasBulletChar(text) == \E i \in DOMAIN text : text[i] \in {DASH, BULLET}

\* C13: parseKeyStatistics returns exactly the one-element placeholder list
\* ['Could not parse key statistics from AI response.'] for every text that
\* has neither a 'Key Statistics' section followed by a 'Data Quality
\* Assessment' heading nor a bullet-like line.
C13_PlaceholderOnTotalFailure ==
  (automatedInsights # Null /\ ~HasSection(aiText) /\ ~HasBulletChar(aiText))
    => Val(automatedInsights) = <<"Could not parse key statistics from AI response.">>

\* a text with an unclosed 'Key Statistics' heading and no bullet was parsed to
\* the placeholder
C13_Witness ==
  /\ automatedInsights = Some(<<"Could not parse key statistics from AI response.">>)
  /\ ~HasSection(aiText) /\ ~HasBulletChar(aiText)
  /\ Len(aiText) >= 3
  /\ aiText[1] \in KeyStatisticsHeadings /\ aiText[Len(aiText)] = "rows"

\* the pieces between the first 'Key Statistics' heading that has a 'Data
\* Quality Assessment' heading after it and the first such heading after it
SectionOf(text) ==
  LET i == Min({k \in DOMAIN text : text[k] \in KeyStatisticsHeadings
                  /\ \E d \in DOMAIN text : d > k /\ text[d] \in DataQualityHeadings})
      j == Min({d \in DOMAIN text : d > i /\ text[d] \in DataQualityHeadings})
  IN SubSeq(text, i + 1, j - 1)

\* the section has something other than newlines
HasNonEmptySection(text) ==
  HasSection(text) /\ \E k \in DOMAIN SectionOf(text) : SectionOf(text)[k] # NL

LeftTrimmed(line) ==
  SubSeq(line, Min({k \in DOMAIN line : line[k] \notin {NL, SP}}), Len(line))
RightTrimmed(line) ==
  SubSeq(line, 1, Max({k \in DOMAIN line : line[k] \notin {NL, SP}}))

\* the non-blank lines of the section, sub-headings and bold markers removed, a
\* leading '- ' turned into a bullet; the first line starts and the last line
\* ends at its text
SectionLines(text) ==
  LET plain == SelectSeq(SectionOf(text), LAMBDA c : c \notin SubHeadings /\ c # BOLD)
      bulleted(line) == IF Len(line) >= 2 /\ line[1] = DASH /\ line[2] = SP
                          THEN <<BULLET>> \o Tail(line) ELSE line
      all == split(plain)
      lines == SelectSeq([k \in DOMAIN all |-> bulleted(all[k])],
                         LAMBDA l : \E k \in DOMAIN l : l[k] \notin {NL, SP})
  IN [k \in DOMAIN lines |->
        Join(LET l == IF k = 1 THEN LeftTrimmed(lines[k]) ELSE lines[k]
             IN IF k = Len(lines) THEN RightTrimmed(l) ELSE l)]

\* C14: parseKeyStatistics gives the 'Key Statistics' section priority over the
\* bullet fallback: when the text has a non-empty section between
\* '## Key Statistics' and '## Data Quality Assessment', the result is the
\* non-blank lines of that section (sub-headings and bold markers removed, a
\* leading '- ' turned into a bullet) and nothing from outside the section.
C14_SectionHasPriority ==
  (automatedInsights # Null /\ HasNonEmptySection(aiText))
    => Val(automatedInsights) = SectionLines(aiText)

\* a text with a bullet line before the section, which the bullet scan would
\* return, was parsed to the one line of its section
C14_Witness ==
  /\ HasNonEmptySection(aiText)
  /\ aiText[1] = DASH /\ aiText[3] = "intro"
  /\ MatchBullets(aiText, 1) # <<>>
  /\ automatedInsights = Some(<<Join(<<BULLET, SP, "rows", SP, "120">>)>>)

----------------------------------------------------------------------------
\* Error handling

\* C15: when the sign-in request fails, the login form that sent it shows the
\* backend's error detail if one was returned and otherwise 'Invalid email or
\* password', its isLoading is false again, the session and local storage are
\* unchanged and the failure navigates nowhere.
C15_SigninFailureShown ==
  [][\A i \in DOMAIN signinRequests, detail \in Details :
       handleLoginCatch(i, detail) =>
         /\ signinRequests[i].mounted =>
              /\ loginPage'.error =
                   IF detail \in {Null, Some("")} THEN Some("Invalid email or password")
                                                  ELSE detail
              /\ ~loginPage'.isLoading
         /\ user' = user /\ token' = token /\ localStorage' = localStorage
         /\ route' = route]_vars

\* the login form shows the backend's detail of a failed sign-in, nobody is
\* signed in
C15_Witness ==
  /\ route = "/login"
  /\ loginPage.error = Some("Server says no") /\ ~loginPage.isLoading
  /\ signinRequests = <<>>
  /\ ~isAuthenticated /\ user = Null /\ getItem(localStorage, "token") = Null

\* the card of an upload
CardOf(results, tempId) ==
  CHOOSE r \in {results[k] : k \in DOMAIN results} : r.id = tempId

\* C16: in the Dashboard that has the insights panel (the first version, whose
\* lines the claim names), when POST /data/upload-file fails, uploadError is
\* the backend's detail or, without one, 'File upload failed.', the card of
\* that upload is titled 'Upload Failed' with that message, automatedInsights
\* becomes the one-element failure message, the request is gone and no GET
\* /data/summarize is issued, and isUploading is false and selectedFile null.
C16_UploadFailureShown ==
  [][\A i \in DOMAIN uploads, detail \in Details :
       (version = 1 /\ uploadFileCatch(i, detail)) =>
         LET msg == IF detail \in {Null, Some("")} THEN "File upload failed." ELSE Val(detail)
             tempId == uploads[i].tempId
         IN /\ uploadError' = Some(msg)
            /\ CardOf(analysisResults', tempId).title = "Upload Failed"
            /\ CardOf(analysisResults', tempId).content = msg
            /\ automatedInsights' = Some(<<"Failed to load insights. " \o msg>>)
            /\ Len(uploads') = Len(uploads) - 1
            /\ \A k \in DOMAIN uploads' : \E j \in DOMAIN uploads : uploads'[k] = uploads[j]
            /\ ~isUploading' /\ selectedFile' = Null]_vars

\* an upload of the first Dashboard failed with a detail: the error, the card
\* and the insights panel show it, nothing is outstanding
C16_Witness ==
  /\ version = 1 /\ Mounted
  /\ uploadError = Some("Server says no")
  /\ \E k \in DOMAIN analysisResults :
       /\ analysisResults[k].title = "Upload Failed"
       /\ analysisResults[k].content = "Server says no"
  /\ automatedInsights = Some(<<"Failed to load insights. Server says no">>)
  /\ uploads = <<>> /\ ~isUploading /\ selectedFile = Null

\* C17 as stated: when the summary fetch fails, the status card (titled
\* 'Summary Failed') and the insights panel show the backend's error detail
\* when one was returned and 'Failed to fetch summary.' otherwise; uploadError
\* is left alone and the card is not titled 'Upload Failed'.
C17_SummaryFailureShowsDetail ==
  [][\A i \in DOMAIN uploads, detail \in SummaryDetails :
       fetchSummaryCatch(i, detail) =>
         LET msg == IF detail \in {Null, Some("")} THEN "Failed to fetch summary."
                                                   ELSE Val(detail)
             card == CardOf(analysisResults', uploads[i].tempId)
         IN /\ card.title = "Summary Failed" /\ card.content = msg
            /\ automatedInsights' = Some(<<"Failed to load insights. " \o msg>>)
            /\ uploadError' = uploadError]_vars

\* C17, amended: a detail that mentions LM Studio is not shown, the text 'AI
\* server is not running. Please start LM Studio.' is shown in its place; any
\* other detail is shown as returned, and 'Failed to fetch summary.' when there
\* is none.  uploadError is left alone and the card is not titled 'Upload Failed'.
C17_SummaryFailureShown ==
  [][\A i \in DOMAIN uploads, detail \in SummaryDetails :
       fetchSummaryCatch(i, detail) =>
         LET msg == IF detail \in {Null, Some("")} THEN "Failed to fetch summary."
                    ELSE IF detail = Some("LM Studio connection refused")
                           THEN "AI server is not running. Please start LM Studio."
                           ELSE Val(detail)
             card == CardOf(analysisResults', uploads[i].tempId)
         IN /\ card.title = "Summary Failed" /\ card.content = msg
            /\ card.title # "Upload Failed"
            /\ automatedInsights' = Some(<<"Failed to load insights. " \o msg>>)
            /\ uploadError' = uploadError]_vars

\* a summary failed with a detail that mentions LM Studio: card and insights
\* panel show the replacement text, no upload error is reported
C17_Witness ==
  /\ \E k \in DOMAIN analysisResults :
       /\ analysisResults[k].title = "Summary Failed"
       /\ analysisResults[k].content = "AI server is not running. Please start LM Studio."
  /\ automatedInsights =
       Some(<<"Failed to load insights. AI server is not running. Please start LM Studio.">>)
  /\ uploadError = Null /\ uploads = <<>> /\ ~isUploading

\* C18: with an empty password in the login form, a submission is rejected by
\* the required-field validation: handleLogin does not run, so no POST
\* /auth/signin is issued, isLoading stays false and the submission leaves the
\* session as it is.
C18_EmptyPasswordRejected ==
  [][(route = "/login" /\ loginPage.password = "") =>
       /\ ~handleLogin
       /\ Len(signinRequests') <= Len(signinRequests)
       /\ ~loginPage.isLoading => ~loginPage'.isLoading]_vars

\* the login form holds an email and no password after a failed sign-in, whose
\* error a submission would have cleared; no request is out
C18_Witness ==
  /\ route = "/login"
  /\ loginPage.email # "" /\ loginPage.password = ""
  /\ loginPage.error # Null /\ ~loginPage.isLoading
  /\ signinRequests = <<>> /\ registerRequests = <<>>

----------------------------------------------------------------------------
\* The upload form

\* the keys of the CleaningOptions interface
CleaningOptionKeys ==
  {"remove_duplicates", "fill_missing_values", "remove_empty_rows", "remove_empty_columns",
   "clean_text", "standardize_column_names", "optimize_data_types", "remove_outliers",
   "iqr_multiplier", "normalize_numeric"}

\* the values of the fields of a form with the given key
FieldValues(formData, key) ==
  [k \in DOMAIN SelectSeq(formData, LAMBDA f : f[1] = key) |->
     SelectSeq(formData, LAMBDA f : f[1] = key)[k][2]]

\* this step sends a POST /data/upload-file
RequestSent == Len(uploads') = Len(uploads) + 1

\* the options held by the CleaningModal that is mounted (rendered or leaving)
HeldOptions == (CHOOSE m \in Instances("cleaning_options") : TRUE).options

C20_AtMostOneUpload ==
  /\ Len(uploads) <= 1
  /\ isUploading <=> uploads # <<>>

----------------------------------------------------------------------------
\* Interleavings of clicks and completions

\* C21: whenever a modal of the upload flow is open, a file is selected.
C21_OpenModalHasFile ==
  modalStep \in {"upload_prompt", "cleaning_options"} => selectedFile # Null

\* the requests of the upload with the given card id that are outstanding
RequestsOf(reqs, tempId) == SelectSeq(reqs, LAMBDA r : r.tempId = tempId)

\* the GET /data/summarize of an upload is outstanding after a step only if it
\* was before, or if the step is the success of the POST of the same upload; an
\* upload has one request outstanding at most
SummaryAfterOwnPost ==
  \A k \in DOMAIN uploads' :
    /\ Len(RequestsOf(uploads', uploads'[k].tempId)) = 1
    /\ uploads'[k].awaiting # "/data/upload-file" =>
         /\ RequestsOf(uploads, uploads'[k].tempId) # <<>>
         /\ \/ RequestsOf(uploads, uploads'[k].tempId)[1] = uploads'[k]
            \/ RequestsOf(uploads, uploads'[k].tempId)[1].awaiting = "/data/upload-file"

\* C22: for each upload, GET /data/summarize/{user_id} is issued at most once
\* and only after the POST /data/upload-file of that upload has succeeded;
\* isUploading stays true from the start of the upload until its last request
\* has resolved.
C22_SummaryAfterUpload ==
  [][/\ SummaryAfterOwnPost
     /\ uploads' # <<>> => isUploading']_vars

\* the upload with the given card id has a request outstanding
InFlight(tempId) == RequestsOf(uploads, tempId) # <<>>

\* the upload with the given card id has finished as C23 describes
Finished(tempId) ==
  /\ ~InFlight(tempId)
  /\ \E k \in DOMAIN analysisResults :
       /\ analysisResults[k].id = tempId
       /\ analysisResults[k].title \in {"Analysis Complete", "Summary Failed", "Upload Failed"}
  /\ automatedInsights # Null
  /\ ~isUploading
  /\ selectedFile = Null

\* C23: in the Dashboard that fetches a summary (the first version, whose
\* lines the claim names), every upload that passes the guards eventually
\* finishes when every request gets a response: its card is titled 'Analysis
\* Complete', 'Summary Failed' or 'Upload Failed', automatedInsights is
\* non-null, isUploading is false and selectedFile is null.
C23_UploadFinishes ==
  \A tempId \in 1..(MaxUploads + 1) : (version = 1 /\ InFlight(tempId)) ~> Finished(tempId)

----------------------------------------------------------------------------
\* The session's invariant

\* C24: in AuthProvider a token is held only together with a user record:
\* isAuthenticated implies that a user is loaded.
C24_TokenImpliesUser ==
  /\ token # Null => user # Null
  /\ isAuthenticated => user # Null

----------------------------------------------------------------------------
\* The registration flow

\* the Register page stays mounted over the step
SameRegisterPage == route = "/register" /\ route' = "/register" /\ ~Reload

\* the step consumes a request with the given URL sent by the mounted page
Consumes(url) ==
  \E i \in DOMAIN registerRequests :
    /\ registerRequests[i].url = url /\ registerRequests[i].mounted
    /\ registerRequests' = Remove(registerRequests, i)

\* the text a failed request leaves in the form
Shown(detail, fallback) == IF detail \in {Null, Some("")} THEN Some(fallback) ELSE detail

\* C25: the registration flow moves forward only.  While the Register page is
\* mounted, step becomes 'otp' only when POST /auth/register/initiate succeeds
\* and never returns from 'otp' to 'form'; POST /auth/register/verify is issued
\* only in step 'otp'; the redirect to /login is scheduled only by a successful
\* verification; a failed initiate or verify leaves step unchanged, sets the
\* error message and resets isLoading to false.
C25_RegistrationMovesForward ==
  [][/\ SameRegisterPage =>
          /\ registerPage.step = "otp" => registerPage'.step = "otp"
          /\ registerPage'.step # registerPage.step =>
               /\ Consumes("/auth/register/initiate")
               /\ registerPage'.error = registerPage.error
     /\ Len(registerRequests') > Len(registerRequests) =>
          /\ registerRequests'[Len(registerRequests')].url = "/auth/register/verify"
               => registerPage.step = "otp"
          /\ registerRequests'[Len(registerRequests')].url = "/auth/register/initiate"
               => registerPage.step = "form"
     /\ navigateTimers' > navigateTimers =>
          /\ \E i \in DOMAIN registerRequests :
               /\ registerRequests[i].url = "/auth/register/verify"
               /\ registerRequests' = Remove(registerRequests, i)
          /\ registerPage'.error = registerPage.error
     /\ \A i \in DOMAIN registerRequests, detail \in Details :
          /\ handleRegisterSubmitCatch(i, detail) /\ registerRequests[i].mounted =>
               /\ registerPage'.step = registerPage.step
               /\ registerPage'.error = Shown(detail, "Registration failed")
               /\ ~registerPage'.isLoading
          /\ handleOtpSubmitCatch(i, detail) /\ registerRequests[i].mounted =>
               /\ registerPage'.step = registerPage.step
               /\ registerPage'.error = Shown(detail, "Invalid OTP")
               /\ ~registerPage'.isLoading]_vars

\* the flow reached the OTP step and a verification failed there: the page is
\* still in step 'otp', shows the backend's detail and is not loading
C25_Witness ==
  /\ route = "/register"
  /\ registerPage.step = "otp"
  /\ registerPage.error = Some("Server says no")
  /\ ~registerPage.isLoading
  /\ registerRequests = <<>> /\ navigateTimers = 0

\* C26: submitting the registration form with a password of more than 72
\* characters is rejected locally: the error 'Password must be 72 characters or
\* less.' is set, no POST /auth/register/initiate is issued, isLoading stays
\* false and step stays 'form'; with a password of 72 characters or fewer the
\* request is sent with that password.
C26_LongPasswordRejected ==
  [][handleRegisterSubmit =>
       IF Len(registerPage.password) > 72
         THEN /\ registerPage'.error = Some("Password must be 72 characters or less.")
              /\ registerRequests' = registerRequests
              /\ ~registerPage'.isLoading
              /\ registerPage'.step = "form"
         ELSE /\ Len(registerRequests') = Len(registerRequests) + 1
              /\ registerRequests'[Len(registerRequests')].url = "/auth/register/initiate"
              /\ \E k \in DOMAIN registerRequests'[Len(registerRequests')].body :
                   registerRequests'[Len(registerRequests')].body[k] =
                     <<"password", registerPage.password>>
              /\ registerPage'.error = Null
              /\ registerPage'.isLoading]_vars

\* a password of 73 characters was submitted: the form shows the error and
\* nothing was sent
C26_Witness ==
  /\ route = "/register" /\ registerPage.step = "form"
  /\ Len(registerPage.password) = 73
  /\ registerPage.error = Some("Password must be 72 characters or less.")
  /\ ~registerPage.isLoading
  /\ registerRequests = <<>>

----------------------------------------------------------------------------
\* The chat's replies

\* the replies of the assistant among the first n messages, and the user's
Replies(n) ==
  SelectSeq(SubSeq(messageHistory, 1, n),
            LAMBDA m : m.from = "ai" /\ m.text = <<"Processing your request...">>)
Sent(n) == SelectSeq(SubSeq(messageHistory, 1, n), LAMBDA m : m.from = "user")

\* every reply stands after the message it answers: no beginning of the
\* history holds more replies than user messages; the replies still to come
\* are those of the timers; the greeting stays first
RepliesFollow ==
  /\ messageHistory[1] = [from |-> "ai", text |-> <<"Hello! Upload your data to get started.">>]
  /\ \A n \in 1..Len(messageHistory) : Len(Replies(n)) <= Len(Sent(n))
  /\ Len(Replies(Len(messageHistory))) + replyTimers = Len(UserMessages)
  /\ \A n \in 1..Len(messageHistory) : messageHistory[n].from = "user" =>
       trim(messageHistory[n].text) # <<>>
  /\ replyTimers = 0 =>
       Len(SelectSeq(messageHistory, LAMBDA m : m.from = "ai")) = Len(UserMessages) + 1

\* C27: in the chat panel every non-blank user message is eventually answered
\* by exactly one AI message 'Processing your request...' that stands after it
\* in messageHistory, under any interleaving of sends and timer callbacks; no
\* message is removed or reordered; once all timers have fired the number of
\* AI messages is the number of user messages plus the greeting.
C27_EveryMessageAnswered ==
  /\ []RepliesFollow
  /\ [][SubSeq(messageHistory', 1, Len(messageHistory)) = messageHistory]_vars
  /\ \A n \in 1..(MaxMessages + 1) :
       (Len(UserMessages) >= n) ~> (Len(Replies(Len(messageHistory))) >= n)

====
